---- MODULE Spec2Model ----
(***************************************************************************)
(* Model of NvidiaSettingsService (src/NvidiaSettingsService.py): one      *)
(* discovery pass return_available_items = execute_process followed by     *)
(* parse_query_all, the line-by-line parser of `nvidia-settings --query    *)
(* all` output.                                                            *)
(*                                                                         *)
(* Representation.  Python text that the code inspects character by        *)
(* character (the header's example, the bounds of a range line, the list   *)
(* of an enumeration line) is a sequence of one-character strings.  Text   *)
(* that the code only compares for equality (attribute names, gpu indices, *)
(* kind keywords, dictionary keys) is a TLA+ string.  A Python value whose *)
(* type varies at run time carries its type as a tag: <<"str", chars>>,    *)
(* <<"int", i>>, <<"bool", b>>, <<"float", n, k>> (the number n / 10^k).   *)
(* A Python dict is a function whose DOMAIN is the set of keys present.    *)
(* gpus_attributes[index][attribute] is gpus_attributes[<<index,           *)
(* attribute>>]: the code never leaves an inner mapping empty.             *)
(*                                                                         *)
(* A line of the output is a record of the parts the regular expressions   *)
(* look at: `indent` is the leading whitespace every pattern demands       *)
(* (\s+), `dot` the trailing period.                                       *)
(***************************************************************************)
EXTENDS Integers, Sequences, FiniteSets, TLC

VARIABLES pc, spawned, returncode, stdout, gpus_attributes, current_attribute,
          current_index, line, lineno, exception, result, header_keys,
          read_only_seen

vars == <<pc, spawned, returncode, stdout, gpus_attributes, current_attribute,
          current_index, line, lineno, exception, result, header_keys,
          read_only_seen>>

(* Longest output, in lines, that one pass reads. *)
MaxLines == 4

(* Python's None.  It is no \w+ word, so no captured name or index equals it. *)
None == "<None>"

(* '{attribute}'.format(attribute=x): None is rendered as the text None. *)
Format(x) == IF x = None THEN "None" ELSE x

(***************************************************************************)
(* Characters and the conversions int(), float(), str.split, str.strip     *)
(***************************************************************************)
Digits == {"0", "1", "2", "3", "4", "5", "6", "7", "8", "9"}

DigitVal(c) ==
  CASE c = "0" -> 0 [] c = "1" -> 1 [] c = "2" -> 2 [] c = "3" -> 3
    [] c = "4" -> 4 [] c = "5" -> 5 [] c = "6" -> 6 [] c = "7" -> 7
    [] c = "8" -> 8 [] c = "9" -> 9

(* \d+ *)
IsDigits(s) == Len(s) > 0 /\ \A i \in 1..Len(s) : s[i] \in Digits

(* -?\d+ *)
IsSignedDigits(s) ==
  Len(s) > 0 /\ IF s[1] = "-" THEN IsDigits(Tail(s)) ELSE IsDigits(s)

RECURSIVE DigitsValue(_)
DigitsValue(s) ==
  IF s = <<>> THEN 0
  ELSE DigitsValue(SubSeq(s, 1, Len(s) - 1)) * 10 + DigitVal(s[Len(s)])

RECURSIVE strip(_)
strip(s) ==
  IF s = <<>> THEN s
  ELSE IF s[1] = " " THEN strip(Tail(s))
  ELSE IF s[Len(s)] = " " THEN strip(SubSeq(s, 1, Len(s) - 1))
  ELSE s

HasSign(s) == Len(s) > 0 /\ s[1] \in {"-", "+"}

Unsigned(s) == IF HasSign(s) THEN Tail(s) ELSE s

(* int(str) accepts surrounding blanks, one sign and decimal digits. *)
IsIntLiteral(s) == IsDigits(Unsigned(strip(s)))

IntLiteralValue(s) ==
  LET t == strip(s)
  IN IF Len(t) > 0 /\ t[1] = "-" THEN 0 - DigitsValue(Tail(t))
     ELSE DigitsValue(Unsigned(t))

Dots(s) == {i \in 1..Len(s) : s[i] = "."}

WithoutDot(s) == SelectSeq(s, LAMBDA c : c # ".")

(* float(str) accepts a sign, digits and at most one decimal point. *)
IsFloatLiteral(s) ==
  LET u == Unsigned(strip(s))
  IN Cardinality(Dots(u)) <= 1 /\ IsDigits(WithoutDot(u))

RECURSIVE Normalize(_, _)
Normalize(n, k) ==
  IF k > 0 /\ n % 10 = 0 THEN Normalize(n \div 10, k - 1) ELSE <<"float", n, k>>

FloatLiteralValue(s) ==
  LET t == strip(s)
      u == Unsigned(t)
      k == IF Dots(u) = {} THEN 0 ELSE Len(u) - (CHOOSE i \in Dots(u) : TRUE)
      m == DigitsValue(WithoutDot(u))
  IN Normalize(IF t[1] = "-" THEN 0 - m ELSE m, k)

(* Least position at which sep occurs in s, 0 when it does not. *)
find(s, sep) ==
  LET hits == {i \in 1..(Len(s) - Len(sep) + 1) :
                 SubSeq(s, i, i + Len(sep) - 1) = sep}
  IN IF hits = {} THEN 0 ELSE CHOOSE i \in hits : \A j \in hits : i <= j

(* s.split(sep) *)
RECURSIVE split(_, _)
split(s, sep) ==
  LET i == find(s, sep)
  IN IF i = 0 THEN <<s>>
     ELSE <<SubSeq(s, 1, i - 1)>> \o split(SubSeq(s, i + Len(sep), Len(s)), sep)

(* s.count(sep) *)
count(s, sep) == Len(split(s, sep)) - 1

RECURSIVE Flatten(_)
Flatten(ss) == IF ss = <<>> THEN <<>> ELSE Head(ss) \o Flatten(Tail(ss))

(* [x.split(sep) for x in ss] *)
SplitEach(ss, sep) == [i \in 1..Len(ss) |-> split(ss[i], sep)]

(* [x.strip() for x in ss] *)
StripEach(ss) == [i \in 1..Len(ss) |-> strip(ss[i])]

(* [int(x) for x in ss], [float(x) for x in ss] and ss itself, as values *)
IntEach(ss) == [i \in 1..Len(ss) |-> <<"int", IntLiteralValue(ss[i])>>]

FloatEach(ss) == [i \in 1..Len(ss) |-> FloatLiteralValue(ss[i])]

StrEach(ss) == [i \in 1..Len(ss) |-> <<"str", ss[i]>>]

(***************************************************************************)
(* Dictionaries and exceptions                                             *)
(***************************************************************************)
EmptyDict == [k \in {} |-> TRUE]

(* d[key] = value on a plain dict *)
Put(d, key, value) ==
  [k \in DOMAIN d \cup {key} |-> IF k = key THEN value ELSE d[k]]

(* gpus_attributes[index][attribute] read through the defaultdicts: a key  *)
(* that is missing is created with an empty dict.                          *)
Touch(attrs, key) ==
  [k \in DOMAIN attrs \cup {key} |->
     IF k \in DOMAIN attrs THEN attrs[k] ELSE EmptyDict]

(* The write lands on every record of that attribute name, whatever its    *)
(* gpu index.                                                              *)
SetItemByName(attrs, key, field, value) ==
  [k \in DOMAIN attrs \cup {key} |->
     IF k[2] = key[2] THEN Put(Touch(attrs, key)[k], field, value)
     ELSE attrs[k]]

(* gpus_attributes[index][attribute][field] = value *)
SetItem(attrs, key, field, value) ==
  [Touch(attrs, key) EXCEPT ![key] = Put(@, field, value)]

NoException == [type |-> "none", args |-> <<>>]

Raise(s, type, args) == [s EXCEPT !.exc = [type |-> type, args |-> args]]

Key(s) == <<s.index, s.attribute>>

(* int(x) for the values the example field can hold; <<"ValueError">>      *)
(* stands for the exception int() raises on a string that is no integer    *)
(* literal.                                                                *)
int(x) ==
  CASE x[1] = "str" -> IF IsIntLiteral(x[2]) THEN <<"int", IntLiteralValue(x[2])>>
                       ELSE <<"ValueError">>
    [] x[1] = "int" -> x
    [] x[1] = "bool" -> <<"int", IF x[2] THEN 1 ELSE 0>>

(* bool(i) of an int *)
bool(i) == <<"bool", i[2] # 0>>

(***************************************************************************)
(* The five recognizers of parse_query_all, in the order the loop body     *)
(* applies them to one line.  s is the loop's state: attrs                 *)
(* (gpus_attributes), attribute (current_attribute), index                 *)
(* (current_index) and exc, the exception raised so far in this iteration. *)
(***************************************************************************)
HeaderMatch(l) ==
  l.form = "header" /\ l.indent /\ l.target = "gpu" /\ l.dot

HeaderStep(s, l) ==
  IF s.exc # NoException \/ ~HeaderMatch(l) THEN s
  ELSE [s EXCEPT
          !.attrs = [k \in DOMAIN s.attrs \cup {<<l.index, l.name>>} |->
                       IF k = <<l.index, l.name>>
                       THEN Put(Put(EmptyDict, "example", <<"str", l.example>>),
                                "read-only", FALSE)
                       ELSE s.attrs[k]],
          !.attribute = l.name,
          !.index = l.index]

TypeMatch(l, attribute) ==
  l.form = "type" /\ l.indent /\ l.name = Format(attribute)

BitmaskPattern == "0x[0-9a-z]{8}"

(* ','.join(['[0-9]+'] * n) *)
PackedPattern(n) ==
  [i \in 1..(2 * n - 1) |-> IF i % 2 = 1 THEN "[0-9]+" ELSE ","]

(* An unhandled kind passes silently instead of raising. *)
UnhandledTypeIgnored(s, l) == s

(* The else branch of the kind dispatch. *)
UnhandledType(s, l) ==
  Raise(s, "NvidiaSettingsServiceException",
        <<"unhandled type", s.attribute, l.kind>>)

TypeStep(s, l) ==
  IF s.exc # NoException \/ ~TypeMatch(l, s.attribute) THEN s
  ELSE
    LET typed(t) == [s EXCEPT !.attrs = SetItem(s.attrs, Key(s), "type", t)]
        example(t) == t.attrs[Key(s)]["example"]
    IN CASE l.kind = "read-only" ->
              [s EXCEPT !.attrs = SetItem(s.attrs, Key(s), "read-only", TRUE)]
         [] l.kind = "integer" ->
              LET t == typed("integer")
              IN IF "example" \notin DOMAIN t.attrs[Key(s)]
                 THEN Raise(t, "KeyError", <<"example">>)
                 ELSE IF int(example(t))[1] = "ValueError"
                 THEN Raise(t, "ValueError", <<>>)
                 ELSE [t EXCEPT !.attrs =
                         SetItem(t.attrs, Key(s), "example", int(example(t)))]
         [] l.kind = "bitmask" ->
              LET t == typed("string")
              IN [t EXCEPT !.attrs =
                    SetItem(t.attrs, Key(s), "pattern", <<BitmaskPattern>>)]
         [] l.kind = "packed integer" ->
              LET t == typed("string")
              IN IF "example" \notin DOMAIN t.attrs[Key(s)]
                 THEN Raise(t, "KeyError", <<"example">>)
                 ELSE IF example(t)[1] # "str"
                 THEN Raise(t, "AttributeError", <<"count">>)
                 ELSE [t EXCEPT !.attrs =
                         SetItem(t.attrs, Key(s), "pattern",
                                 PackedPattern(count(example(t)[2], <<",">>) + 1))]
         [] OTHER -> UnhandledType(s, l)

RangeMatch(l, attribute) ==
  /\ l.form = "range" /\ l.indent /\ l.name = Format(attribute)
  /\ IsSignedDigits(l.min) /\ IsDigits(l.max)

(* The range pattern without the attribute name in it. *)
RangeStepAnyName(s, l) ==
  IF s.exc # NoException
       \/ ~(l.form = "range" /\ l.indent /\ IsSignedDigits(l.min) /\ IsDigits(l.max))
  THEN s
  ELSE [s EXCEPT !.attrs =
          SetItem(SetItem(SetItem(s.attrs, Key(s), "type", "integer"),
                          Key(s), "minimum", IntLiteralValue(l.min)),
                  Key(s), "maximum", IntLiteralValue(l.max))]

(* The minimum loses its sign. *)
RangeStepUnsigned(s, l) ==
  IF s.exc # NoException \/ ~RangeMatch(l, s.attribute) THEN s
  ELSE [s EXCEPT !.attrs =
          SetItem(SetItem(SetItem(s.attrs, Key(s), "type", "integer"),
                          Key(s), "minimum", DigitsValue(Unsigned(l.min))),
                  Key(s), "maximum", IntLiteralValue(l.max))]

RangeStep(s, l) ==
  IF s.exc # NoException \/ ~RangeMatch(l, s.attribute) THEN s
  ELSE LET start == IntLiteralValue(l.min)
           end == IntLiteralValue(l.max)
       IN [s EXCEPT !.attrs =
             SetItem(SetItem(SetItem(s.attrs, Key(s), "type", "integer"),
                             Key(s), "minimum", start),
                     Key(s), "maximum", end)]

BooleanMatch(l, attribute) ==
  l.form = "boolean" /\ l.indent /\ l.name = Format(attribute)

BooleanStep(s, l) ==
  IF s.exc # NoException \/ ~BooleanMatch(l, s.attribute) THEN s
  ELSE LET t == [s EXCEPT !.attrs = SetItem(s.attrs, Key(s), "type", "boolean")]
           example == t.attrs[Key(s)]["example"]
       IN IF "example" \notin DOMAIN t.attrs[Key(s)]
          THEN Raise(t, "KeyError", <<"example">>)
          ELSE IF int(example)[1] = "ValueError"
          THEN Raise(t, "ValueError", <<>>)
          ELSE [t EXCEPT !.attrs =
                  SetItem(t.attrs, Key(s), "example", bool(int(example)))]

(* Last period of the text after "are: " that has a character before it:   *)
(* the period the greedy (.+)\. ends on; 0 when there is none.             *)
LastDot(text) ==
  LET ds == {i \in Dots(text) : i >= 2}
  IN IF ds = {} THEN 0 ELSE CHOOSE i \in ds : \A j \in ds : j <= i

EnumMatch(l, attribute) ==
  /\ l.form = "enum" /\ l.indent /\ l.name = Format(attribute)
  /\ LastDot(l.text) # 0

(* [x.strip() for y in [x.split(',') for x in group.split('and')] for x in y] *)
FlatList(group) ==
  LET valid_values == split(group, <<"a", "n", "d">>)
  IN StripEach(Flatten(SplitEach(valid_values, <<",">>)))

EnumStep(s, l) ==
  IF s.exc # NoException \/ ~EnumMatch(l, s.attribute) THEN s
  ELSE
    LET flat_list == FlatList(SubSeq(l.text, 1, LastDot(l.text) - 1))
        every(P(_)) == \A i \in 1..Len(flat_list) : P(flat_list[i])
        set(type, enum) ==
          SetItem(SetItem(s.attrs, Key(s), "type", type), Key(s), "enum", enum)
    IN IF every(IsIntLiteral)
       THEN [s EXCEPT !.attrs = set("integer", IntEach(flat_list))]
       ELSE IF every(IsFloatLiteral)
       THEN [s EXCEPT !.attrs =
               SetItem(SetItem(SetItem(s.attrs, Key(s), "type", "number"),
                               Key(s), "format", "float"),
                       Key(s), "enum", FloatEach(flat_list))]
       ELSE [s EXCEPT !.attrs = set("string", StrEach(flat_list))]

(* One iteration of the for loop over the lines. *)
LoopBody(s, l) ==
  EnumStep(BooleanStep(RangeStep(TypeStep(HeaderStep(s, l), l), l), l), l)

(***************************************************************************)
(* The lines the output is drawn from                                      *)
(***************************************************************************)
(* Names the headers carry, and names the detail lines quote. *)
HeaderNames == {"A"}

Names == HeaderNames \cup {"None"}

Indices == {"0", "1"}

Examples == {<<"0">>, <<"7">>, <<"2", "0", "1", "2", ",", "4", "7", "5", "2">>}

HeaderLines ==
  [form : {"header"}, indent : {TRUE}, name : HeaderNames, target : {"gpu"},
   index : Indices, example : Examples, dot : {TRUE}]

(* Headers the pattern rejects: not indented, an X screen target without   *)
(* [gpu:N], no final period.                                               *)
MalformedHeaderLines ==
  {[form |-> "header", indent |-> FALSE, name |-> "A", target |-> "gpu",
    index |-> "0", example |-> <<"0">>, dot |-> TRUE],
   [form |-> "header", indent |-> TRUE, name |-> "A", target |-> "screen",
    index |-> "0", example |-> <<"0">>, dot |-> TRUE],
   [form |-> "header", indent |-> TRUE, name |-> "A", target |-> "gpu",
    index |-> "0", example |-> <<"0">>, dot |-> FALSE]}

HandledKinds == {"read-only", "integer", "bitmask", "packed integer"}

Kinds == HandledKinds \cup {"boolean", "frobnicated"}

(* Every kind for a header's name; for the name None a handled flag, a     *)
(* handled conversion and an unhandled kind; and one line not indented.    *)
TypeLines ==
  [form : {"type"}, indent : {TRUE}, name : HeaderNames, kind : Kinds]
    \cup [form : {"type"}, indent : {TRUE}, name : {"None"},
          kind : {"read-only", "integer", "frobnicated"}]
    \cup {[form |-> "type", indent |-> FALSE, name |-> "A", kind |-> "read-only"]}

Bounds == {<<<<"-", "5">>, <<"1", "0">>>>, <<<<"-", "5">>, <<"-", "1">>>>}

RangeLines ==
  {[form |-> "range", indent |-> TRUE, name |-> n, min |-> b[1], max |-> b[2]] :
     n \in Names, b \in Bounds}

BooleanLines == [form : {"boolean"}, indent : {TRUE}, name : Names]

(* "1, 2 and 3.", "1.5 and 2.", "low and high.", "standard." and, without  *)
(* the final period, "1 and 2"                                             *)
EnumTexts ==
  {<<"1", ",", " ", "2", " ", "a", "n", "d", " ", "3", ".">>,
   <<"1", ".", "5", " ", "a", "n", "d", " ", "2", ".">>,
   <<"l", "o", "w", " ", "a", "n", "d", " ", "h", "i", "g", "h", ".">>,
   <<"s", "t", "a", "n", "d", "a", "r", "d", ".">>,
   <<"1", " ", "a", "n", "d", " ", "2">>}

EnumLines ==
  [form : {"enum"}, indent : {TRUE}, name : HeaderNames, text : EnumTexts]
    \cup {[form |-> "enum", indent |-> TRUE, name |-> "None",
           text |-> <<"1", ",", " ", "2", " ", "a", "n", "d", " ", "3", ".">>]}

(* "'A' can use the following target types: X Screen, GPU." and the like *)
OtherLines == {[form |-> "other"]}

Lines ==
  HeaderLines \cup MalformedHeaderLines \cup TypeLines \cup RangeLines
    \cup BooleanLines \cup EnumLines \cup OtherLines

NoLine == [form |-> "none"]

(***************************************************************************)
(* The discovery pass                                                      *)
(***************************************************************************)
ExitCodes == {0, 1, 2}

(* What the temporary file holds when the process has ended: nothing, or   *)
(* at least one line.                                                      *)
StdoutFiles == {"empty", "lines"}

Init ==
  /\ pc = "start"
  /\ spawned = 0
  /\ returncode = None
  /\ stdout = None
  /\ gpus_attributes = EmptyDict
  /\ current_attribute = None
  /\ current_index = None
  /\ line = NoLine
  /\ lineno = 0
  /\ exception = NoException
  /\ result = None
  /\ header_keys = {}
  /\ read_only_seen = {}

(* The exit code is not looked at: the output is always handed on. *)
execute_process_unchecked ==
  /\ pc = "start"
  /\ \E code \in ExitCodes, out \in StdoutFiles :
       /\ spawned' = spawned + 1
       /\ returncode' = code
       /\ stdout' = out
       /\ exception' = exception
       /\ pc' = "parse_query_all"
  /\ UNCHANGED <<gpus_attributes, current_attribute, current_index, line,
                 lineno, result, header_keys, read_only_seen>>

(* execute_process: one subprocess, awaited; its exit code decides between *)
(* the exception and handing stdout to parse_query_all.                    *)
execute_process ==
  /\ pc = "start"
  /\ \E code \in ExitCodes, out \in StdoutFiles :
       /\ spawned' = spawned + 1
       /\ returncode' = code
       /\ stdout' = out
       /\ IF code # 0
          THEN /\ exception' = [type |-> "NvidiaSettingsServiceException",
                                args |-> <<"failed with code", code, out>>]
               /\ pc' = "raised"
          ELSE /\ exception' = exception
               /\ pc' = "parse_query_all"
  /\ UNCHANGED <<gpus_attributes, current_attribute, current_index, line,
                 lineno, result, header_keys, read_only_seen>>

(* One iteration of the loop of parse_query_all on the next line l. *)
parse_line(l) ==
  /\ pc = "parse_query_all"
  /\ stdout = "lines"
  /\ lineno < MaxLines
  /\ LET s == [attrs |-> gpus_attributes, attribute |-> current_attribute,
               index |-> current_index, exc |-> NoException]
         t == LoopBody(s, l)
     IN /\ gpus_attributes' = t.attrs
        /\ current_attribute' = t.attribute
        /\ current_index' = t.index
        /\ exception' = t.exc
        /\ pc' = IF t.exc # NoException THEN "raised" ELSE pc
  /\ line' = l
  /\ lineno' = lineno + 1
  /\ header_keys' = IF HeaderMatch(l) THEN header_keys \cup {<<l.index, l.name>>}
                    ELSE header_keys
  /\ read_only_seen' =
       IF HeaderMatch(l) THEN read_only_seen \ {<<l.index, l.name>>}
       ELSE IF TypeMatch(l, current_attribute) /\ l.kind = "read-only"
       THEN read_only_seen \cup {<<current_index, current_attribute>>}
       ELSE read_only_seen
  /\ UNCHANGED <<spawned, returncode, stdout, result>>

(* The loop has consumed every line: return gpus_attributes. *)
parse_return ==
  /\ pc = "parse_query_all"
  /\ stdout = "empty" \/ lineno >= 1
  /\ result' = gpus_attributes
  /\ pc' = "returned"
  /\ UNCHANGED <<spawned, returncode, stdout, gpus_attributes,
                 current_attribute, current_index, line, lineno, exception,
                 header_keys, read_only_seen>>

Next ==
  \/ execute_process
  \/ \E l \in Lines : parse_line(l)
  \/ parse_return

Spec == Init /\ [][Next]_vars

(***************************************************************************)
(* Properties                                                              *)
(***************************************************************************)
Current == <<current_index, current_attribute>>

NSSE == "NvidiaSettingsServiceException"

(* C1: a type declaration for the current attribute whose kind is none of  *)
(* read-only, integer, bitmask, packed integer ends the parse with         *)
(* NvidiaSettingsServiceException at that line, and nothing is returned,   *)
(* whatever was parsed before.                                             *)
C1_UnhandledKindIsFatal ==
  (lineno >= 1 /\ TypeMatch(line, current_attribute)
     /\ line.kind \notin HandledKinds)
    => /\ pc = "raised"
       /\ exception = [type |-> NSSE,
                       args |-> <<"unhandled type", current_attribute, line.kind>>]
       /\ result = None

C1_Witness ==
  /\ pc = "raised" /\ lineno >= 2
  /\ TypeMatch(line, current_attribute) /\ line.kind = "frobnicated"
  /\ Current \in header_keys /\ "type" \in DOMAIN gpus_attributes[Current]

(* C2: after a header, the parse fails only with the parser's exception    *)
(* and only on a type declaration of an unhandled kind for the current     *)
(* attribute; every other line is tolerated.                               *)
C2_OnlyUnhandledKindFails ==
  (pc = "raised" /\ lineno >= 1 /\ current_attribute # None)
    => /\ exception.type = NSSE
       /\ TypeMatch(line, current_attribute)
       /\ line.kind \notin HandledKinds

(* The optional fields a record carries besides example and read-only. *)
Extras(d) == DOMAIN d \ {"example", "read-only", "type"}

(* The value kinds whose representation the record d has. *)
ValueKinds(d) ==
  IF "type" \notin DOMAIN d
  THEN IF Extras(d) = {} THEN {"Untyped"} ELSE {}
  ELSE LET is(type, extras) == d["type"] = type /\ Extras(d) = extras
       IN {k \in {"Boolean", "Integer", "IntegerRange", "IntegerEnum",
                  "NumberEnum", "StringEnum", "Bitmask", "PackedIntegerList"} :
             CASE k = "Boolean" -> is("boolean", {})
               [] k = "Integer" -> is("integer", {})
               [] k = "IntegerRange" -> is("integer", {"minimum", "maximum"})
               [] k = "IntegerEnum" -> is("integer", {"enum"})
               [] k = "NumberEnum" -> is("number", {"enum", "format"})
               [] k = "StringEnum" -> is("string", {"enum"})
               [] k = "Bitmask" ->
                    is("string", {"pattern"}) /\ d["pattern"] = <<BitmaskPattern>>
               [] k = "PackedIntegerList" ->
                    is("string", {"pattern"}) /\ d["pattern"] # <<BitmaskPattern>>}

(* C3: in the returned registry every record that a header introduced has  *)
(* exactly one value kind (none at all while untyped) and carries exactly  *)
(* the optional fields of that kind: bounds iff IntegerRange, enum only    *)
(* for the enum kinds, pattern only for Bitmask and PackedIntegerList.     *)
C3_FieldsMatchKind ==
  pc = "returned"
    => \A k \in DOMAIN result \cap header_keys :
         Cardinality(ValueKinds(result[k])) = 1

(* C4: a line changes no record but the one at (current_index,             *)
(* current_attribute), so same-named records under two gpu indices are     *)
(* independent; and only a header changes current_attribute and            *)
(* current_index.                                                          *)
C4_LinesAreScoped ==
  [][lineno' = lineno + 1
       => /\ \A k \in DOMAIN gpus_attributes :
               k # <<current_index', current_attribute'>>
                 => k \in DOMAIN gpus_attributes'
                      /\ gpus_attributes'[k] = gpus_attributes[k]
          /\ DOMAIN gpus_attributes' \subseteq
               DOMAIN gpus_attributes \cup {<<current_index', current_attribute'>>}
          /\ ~HeaderMatch(line')
               => current_attribute' = current_attribute
                    /\ current_index' = current_index]_vars

C4_Witness ==
  /\ {<<"0", "A">>, <<"1", "A">>} \subseteq DOMAIN gpus_attributes
  /\ TypeMatch(line, current_attribute) /\ line.kind = "read-only"
  /\ gpus_attributes[<<"0", "A">>]["read-only"]
       # gpus_attributes[<<"1", "A">>]["read-only"]

MatchesRecognizer(l, attribute) ==
  \/ HeaderMatch(l)
  \/ TypeMatch(l, attribute)
  \/ RangeMatch(l, attribute)
  \/ BooleanMatch(l, attribute)
  \/ EnumMatch(l, attribute)

(* C5: reading a line that matches none of the five recognizers in the     *)
(* state where it is read changes nothing of the parse, so the registry    *)
(* or failure is that of the input without the line.                       *)
C5_UnknownLineTolerance ==
  [][(lineno' = lineno + 1 /\ ~MatchesRecognizer(line', current_attribute))
       => UNCHANGED <<gpus_attributes, current_attribute, current_index, pc,
                      exception, result>>]_vars

C5_Witness ==
  /\ lineno >= 2 /\ pc = "parse_query_all"
  /\ current_attribute = "A"
  /\ line.form \in {"type", "range", "boolean", "enum"}
  /\ line.indent /\ line.name = "None"
  /\ "type" \in DOMAIN gpus_attributes[Current]

Letters ==
  {"a", "b", "c", "d", "e", "f", "g", "h", "i", "j", "k", "l", "m", "n", "o",
   "p", "q", "r", "s", "t", "u", "v", "w", "x", "y", "z"}

(* Least position of "and" standing as a word of its own, 0 when none. *)
FindWordAnd(s) ==
  LET hits == {i \in 1..(Len(s) - 2) :
                 /\ SubSeq(s, i, i + 2) = <<"a", "n", "d">>
                 /\ (i = 1 \/ s[i - 1] \notin Letters)
                 /\ (i + 2 = Len(s) \/ s[i + 3] \notin Letters)}
  IN IF hits = {} THEN 0 ELSE CHOOSE i \in hits : \A j \in hits : i <= j

RECURSIVE SplitOnWordAnd(_)
SplitOnWordAnd(s) ==
  LET i == FindWordAnd(s)
  IN IF i = 0 THEN <<s>>
     ELSE <<SubSeq(s, 1, i - 1)>> \o SplitOnWordAnd(SubSeq(s, i + 3, Len(s)))

(* The tokens of a list: split on the word "and", then on commas, trimmed. *)
WordTokens(group) ==
  StripEach(Flatten(SplitEach(SplitOnWordAnd(group), <<",">>)))

(* C6: after an enumeration line for the current attribute of a header,    *)
(* the record's enum holds the tokens of the list, split on the word       *)
(* "and" and on commas and trimmed: as integers with type integer if all   *)
(* are integers, else as numbers with type number if all are numbers,      *)
(* else verbatim with type string.                                         *)
C6_EnumTokens ==
  (lineno >= 1 /\ EnumMatch(line, current_attribute) /\ Current \in header_keys)
    => LET tokens == WordTokens(SubSeq(line.text, 1, LastDot(line.text) - 1))
           every(P(_)) == \A i \in 1..Len(tokens) : P(tokens[i])
           d == gpus_attributes[Current]
       IN /\ {"type", "enum"} \subseteq DOMAIN d
          /\ IF every(IsIntLiteral)
             THEN d["type"] = "integer" /\ d["enum"] = IntEach(tokens)
             ELSE IF every(IsFloatLiteral)
             THEN d["type"] = "number"
                    /\ d["enum"] = FloatEach(tokens)
             ELSE d["type"] = "string" /\ d["enum"] = StrEach(tokens)

(* C7: every record of the returned registry has a boolean read-only flag, *)
(* true exactly when a read-only line was processed for it since its last  *)
(* header.                                                                 *)
C7_ReadOnlyResolved ==
  pc = "returned"
    => \A k \in DOMAIN result :
         /\ "read-only" \in DOMAIN result[k]
         /\ result[k]["read-only"] = (k \in read_only_seen)

(* C8 as claimed: a range line for the current attribute whose minimum and *)
(* maximum are both signed integers gives the record type integer with     *)
(* these bounds.                                                           *)
C8_SignedBounds ==
  (lineno >= 1 /\ current_attribute # None
     /\ line.form = "range" /\ line.indent /\ line.name = Format(current_attribute)
     /\ IsSignedDigits(line.min) /\ IsSignedDigits(line.max))
    => /\ Current \in DOMAIN gpus_attributes
       /\ {"type", "minimum", "maximum"} \subseteq DOMAIN gpus_attributes[Current]
       /\ gpus_attributes[Current]["type"] = "integer"
       /\ gpus_attributes[Current]["minimum"] = IntLiteralValue(line.min)
       /\ gpus_attributes[Current]["maximum"] = IntLiteralValue(line.max)

(* C8 amended: a range line for the current attribute whose minimum is a   *)
(* signed integer and whose maximum is an integer without a sign gives the *)
(* record type integer with these bounds, the sign of the minimum kept.    *)
C8_SignedMinimum ==
  (lineno >= 1 /\ current_attribute # None
     /\ line.form = "range" /\ line.indent /\ line.name = Format(current_attribute)
     /\ IsSignedDigits(line.min) /\ IsDigits(line.max))
    => /\ Current \in DOMAIN gpus_attributes
       /\ {"type", "minimum", "maximum"} \subseteq DOMAIN gpus_attributes[Current]
       /\ gpus_attributes[Current]["type"] = "integer"
       /\ gpus_attributes[Current]["minimum"] = IntLiteralValue(line.min)
       /\ gpus_attributes[Current]["maximum"] = IntLiteralValue(line.max)

C8_Witness ==
  /\ lineno >= 2 /\ current_attribute = "A"
  /\ line.form = "range" /\ line.name = "A"
  /\ line.min = <<"-", "5">> /\ line.max = <<"1", "0">>
  /\ gpus_attributes[Current]["minimum"] = 0 - 5
  /\ gpus_attributes[Current]["maximum"] = 10

(* C9: a pass spawns one process and no more; a non-zero exit code ends    *)
(* it with the exception carrying the code and the captured stdout, the    *)
(* parser not having run and nothing returned; the parser runs only after  *)
(* exit code zero.                                                         *)
C9_SingleAttempt ==
  /\ spawned <= 1
  /\ pc # "start" => spawned = 1
  /\ (pc # "start" /\ returncode # 0)
       => /\ pc = "raised"
          /\ exception = [type |-> NSSE,
                          args |-> <<"failed with code", returncode, stdout>>]
          /\ lineno = 0
          /\ gpus_attributes = EmptyDict
          /\ result = None
  /\ (lineno >= 1 \/ pc = "returned") => returncode = 0

C9_Witness ==
  /\ pc = "raised" /\ spawned = 1 /\ lineno = 0
  /\ returncode = 2 /\ stdout = "lines"
  /\ exception.type = NSSE

(* C10: every key of the registry was introduced by a header, and while no *)
(* header has been read no detail line creates a record or raises.         *)
C10_KeysComeFromHeaders ==
  /\ DOMAIN gpus_attributes \subseteq header_keys
  /\ current_attribute = None
       => gpus_attributes = EmptyDict /\ (lineno >= 1 => pc # "raised")
====
